---- MODULE Spec2Model ----
(***************************************************************************)
(* Model of the crates unrestrictive-url and humanize-url.                 *)
(*                                                                         *)
(* Text is a sequence of one-character strings, Option<T> is a record with *)
(* a `some` flag, url::Host is a tagged record.  The external `url` parser *)
(* is represented by the accessor values of the Url it returns.            *)
(***************************************************************************)
EXTENDS Integers, Sequences, FiniteSets, TLC

(* ------------------------------------------------------------------ *)
(* Option and text helpers                                             *)
(* ------------------------------------------------------------------ *)
None == [some |-> FALSE]

Some(x) == [some |-> TRUE, v |-> x]

\* str::starts_with(char)
StartsWith(s, c) == Len(s) > 0 /\ s[1] = c

\* &s[n..] with n counted from 0
Tail1(s) == SubSeq(s, 2, Len(s))

\* position of the first c in s, 0 when there is none
RECURSIVE FirstIndex(_, _, _)
FirstIndex(s, c, i) ==
    IF i > Len(s) THEN 0
    ELSE IF s[i] = c THEN i
    ELSE FirstIndex(s, c, i + 1)

\* str::split(char), collected: "" gives one empty piece, "/" gives two
RECURSIVE Split(_, _)
Split(s, c) ==
    LET i == FirstIndex(s, c, 1)
    IN  IF i = 0 THEN << s >>
        ELSE << SubSeq(s, 1, i - 1) >> \o Split(SubSeq(s, i + 1, Len(s)), c)

\* Display of an unsigned integer: decimal, no leading zeros
Digit(d) == << "0", "1", "2", "3", "4", "5", "6", "7", "8", "9" >>[d + 1]

RECURSIVE ToDec(_)
ToDec(n) == IF n < 10 THEN << Digit(n) >> ELSE ToDec(n \div 10) \o << Digit(n % 10) >>

\* LowerHex of a u16: no leading zeros
HexDigit(d) ==
    << "0", "1", "2", "3", "4", "5", "6", "7", "8", "9", "a", "b", "c", "d", "e", "f" >>[d + 1]

RECURSIVE ToHex(_)
ToHex(n) == IF n < 16 THEN << HexDigit(n) >> ELSE ToHex(n \div 16) \o << HexDigit(n % 16) >>

\* Display of std::net::Ipv4Addr
Ipv4Text(o) ==
    ToDec(o[1]) \o << "." >> \o ToDec(o[2]) \o << "." >> \o ToDec(o[3]) \o << "." >> \o ToDec(o[4])

\* groups g[a..b] in hex, separated by colons
RECURSIVE HexGroups(_, _, _)
HexGroups(g, a, b) ==
    IF a > b THEN << >>
    ELSE IF a = b THEN ToHex(g[a])
    ELSE ToHex(g[a]) \o << ":" >> \o HexGroups(g, a + 1, b)

\* length of the run of zero groups starting at i
RECURSIVE ZeroRun(_, _)
ZeroRun(g, i) == IF i > Len(g) \/ g[i] # 0 THEN 0 ELSE 1 + ZeroRun(g, i + 1)

\* Display of std::net::Ipv6Addr: the first longest run of two or more zero
\* groups is written "::"; an IPv4-mapped address ends in dotted decimal
Ipv6Text(g) ==
    LET best  == CHOOSE i \in 1..8 :
                    /\ \A j \in 1..8 : ZeroRun(g, j) <= ZeroRun(g, i)
                    /\ \A j \in 1..(i - 1) : ZeroRun(g, j) < ZeroRun(g, i)
        run   == ZeroRun(g, best)
    IN  IF ZeroRun(g, 1) = 5 /\ g[6] = 65535
        THEN << ":", ":", "f", "f", "f", "f", ":" >>
             \o Ipv4Text(<< g[7] \div 256, g[7] % 256, g[8] \div 256, g[8] % 256 >>)
        ELSE IF run > 1
        THEN HexGroups(g, 1, best - 1) \o << ":", ":" >> \o HexGroups(g, best + run, 8)
        ELSE HexGroups(g, 1, 8)

\* url::Host<&str>
Domain(d) == [tag |-> "Domain", domain |-> d]

Ipv4(o) == [tag |-> "Ipv4", octets |-> o]

Ipv6(g) == [tag |-> "Ipv6", groups |-> g]

(* ------------------------------------------------------------------ *)
(* UnrestrictiveUrl                                                    *)
(* ------------------------------------------------------------------ *)

\* From without the normalisation of the empty username
From_KeepEmptyUsername(url) ==
    [ fragment         |-> url.fragment,
      host             |-> url.host,
      password         |-> url.password,
      path             |-> Some(url.path),
      port             |-> url.port,
      query            |-> url.query,
      scheme           |-> Some(url.scheme),
      username         |-> Some(url.username),
      cannot_be_a_base |-> url.cannot_be_a_base ]

\* impl From<&url::Url> for UnrestrictiveUrl
From(url) ==
    LET username == IF Len(url.username) = 0 THEN None ELSE Some(url.username)
    IN  [ fragment         |-> url.fragment,
          host             |-> url.host,
          password         |-> url.password,
          path             |-> Some(url.path),
          port             |-> url.port,
          query            |-> url.query,
          scheme           |-> Some(url.scheme),
          username         |-> username,
          cannot_be_a_base |-> url.cannot_be_a_base ]

\* path_segments that splits the whole path, leading slash included
path_segments_KeepLeadingSlash(self) ==
    IF self.path.some
    THEN IF StartsWith(self.path.v, "/")
         THEN Some(Split(self.path.v, "/"))
         ELSE None
    ELSE None

\* UnrestrictiveUrl::path_segments, the iterator collected
path_segments(self) ==
    IF self.path.some
    THEN IF StartsWith(self.path.v, "/")
         THEN Some(Split(Tail1(self.path.v), "/"))
         ELSE None
    ELSE None

\* the match on url::Host of step 2.3
HostText(host) ==
    CASE host.tag = "Domain" -> host.domain
      [] host.tag = "Ipv4"   -> Ipv4Text(host.octets)
      [] host.tag = "Ipv6"   -> << "[" >> \o Ipv6Text(host.groups) \o << "]" >>

\* the loop `for segment in path_segments { write!(f, "/{}", segment) }`
RECURSIVE WriteSegments(_)
WriteSegments(segs) ==
    IF Len(segs) = 0 THEN << >>
    ELSE << "/" >> \o Head(segs) \o WriteSegments(Tail(segs))

\* step 1 of fmt
FmtScheme(self) == IF self.scheme.some THEN self.scheme.v \o << ":" >> ELSE << >>

\* userinfo that writes the colon for every present password
FmtUserinfo_ColonForEmptyPassword(self) ==
    IF self.username.some
    THEN self.username.v
         \o (IF self.password.some THEN << ":" >> \o self.password.v ELSE << >>)
         \o << "@" >>
    ELSE << >>

\* steps 2.2.1 - 2.2.3 of fmt
FmtUserinfo(self) ==
    IF self.username.some
    THEN self.username.v
         \o (IF self.password.some /\ Len(self.password.v) # 0
             THEN << ":" >> \o self.password.v
             ELSE << >>)
         \o << "@" >>
    ELSE << >>

\* authority that writes the marker whether or not there is a scheme
FmtAuthority_AlwaysMarker(self) ==
    IF self.host.some
    THEN << "/", "/" >>
         \o FmtUserinfo(self)
         \o HostText(self.host.v)
         \o (IF self.port.some THEN << ":" >> \o ToDec(self.port.v) ELSE << >>)
    ELSE << >>

\* step 2 of fmt
FmtAuthority(self) ==
    IF self.host.some
    THEN (IF self.scheme.some THEN << "/", "/" >> ELSE << >>)
         \o FmtUserinfo(self)
         \o HostText(self.host.v)
         \o (IF self.port.some THEN << ":" >> \o ToDec(self.port.v) ELSE << >>)
    ELSE << >>

\* path whose cannot-be-a-base branch writes the segment like the other branch does
FmtPath_CbabSlash(self) ==
    IF self.cannot_be_a_base
    THEN LET iter == path_segments(self)
         IN  IF iter.some /\ Len(iter.v) > 0 THEN << "/" >> \o iter.v[1] ELSE << >>
    ELSE IF self.path.some
         THEN IF self.path.v = << "/" >>
              THEN << "/" >>
              ELSE LET segs == Split(self.path.v, "/")
                   IN  (IF ~self.host.some /\ Len(segs) > 1 /\ segs[1] = << >>
                        THEN << "/", "." >>
                        ELSE << >>)
                       \o WriteSegments(segs)
         ELSE << >>

\* path without the "/." special case
FmtPath_NoDot(self) ==
    IF self.cannot_be_a_base
    THEN LET iter == path_segments(self)
         IN  IF iter.some /\ Len(iter.v) > 0 THEN iter.v[1] ELSE << >>
    ELSE IF self.path.some
         THEN IF self.path.v = << "/" >>
              THEN << "/" >>
              ELSE WriteSegments(Split(self.path.v, "/"))
         ELSE << >>

\* steps 3 and 4 of fmt
FmtPath(self) ==
    IF self.cannot_be_a_base
    THEN LET iter == path_segments(self)
             first_path_segment ==
                 IF iter.some /\ Len(iter.v) > 0 THEN Some(iter.v[1]) ELSE None
         IN  IF first_path_segment.some THEN first_path_segment.v ELSE << >>
    ELSE IF self.path.some
         THEN IF self.path.v = << "/" >>
              THEN << "/" >>
              ELSE LET segs == Split(self.path.v, "/")
                   IN  (IF ~self.host.some /\ Len(segs) > 1 /\ segs[1] = << >>
                        THEN << "/", "." >>
                        ELSE << >>)
                       \o WriteSegments(segs)
         ELSE << >>

\* step 5 of fmt
FmtQuery(self) == IF self.query.some THEN << "?" >> \o self.query.v ELSE << >>

\* fragment section that writes the hash sign unconditionally
FmtFragment_AlwaysHash(self) ==
    << "#" >> \o (IF self.fragment.some THEN self.fragment.v ELSE << >>)

\* step 6 of fmt
FmtFragment(self) == IF self.fragment.some THEN << "#" >> \o self.fragment.v ELSE << >>

\* <UnrestrictiveUrl as fmt::Display>::fmt, i.e. to_string()
Display(self) ==
    FmtScheme(self) \o FmtAuthority(self) \o FmtPath(self) \o FmtQuery(self) \o FmtFragment(self)

(* ------------------------------------------------------------------ *)
(* humanize_url                                                        *)
(* ------------------------------------------------------------------ *)
ParseError == [ok |-> FALSE, err |-> "ParseError"]

Parsed(u) == [ok |-> TRUE, url |-> u]

Err(e) == [ok |-> FALSE, err |-> e]

Ok(s) == [ok |-> TRUE, v |-> s]

\* humanize_url, given what Url::parse returned for the argument
humanize_url(parse) ==
    IF ~parse.ok THEN Err(parse.err)
    ELSE LET url0 == From(parse.url)
             url1 == [url0 EXCEPT !.scheme = None, !.username = None, !.password = None]
             s    == Display(url1)
         IN  IF Len(s) > 0 /\ s[Len(s)] = "/"
             THEN Ok(SubSeq(s, 1, Len(s) - 1))
             ELSE Ok(s)

(* ------------------------------------------------------------------ *)
(* Inputs                                                              *)
(* ------------------------------------------------------------------ *)

\* how many field assignments a caller makes to one view
MaxEdits == 2

\* "hs" stands for a special scheme such as https, "m" for any other
UrlSchemes == { << "h", "s" >>, << "m" >> }

Special(scheme) == scheme = << "h", "s" >>

UrlUsernames == { << >>, << "u" >> }

UrlPasswords == { None, Some(<< >>), Some(<< "p", "w" >>) }

UrlHosts ==
    { None,
      Some(Domain(<< "g", ".", "c" >>)),
      Some(Ipv4(<< 127, 0, 0, 1 >>)),
      Some(Ipv6(<< 8193, 3512, 0, 0, 0, 0, 0, 1 >>)) }

UrlPorts == { None, Some(8443) }

UrlPaths ==
    { << >>, << "/" >>, << "/", "S" >>, << "/", "S", "/" >>, << "/", "S", "/", "t" >>,
      << "/", "/", "S" >>, << "S" >>, << "S", "/", "t" >> }

UrlQueries == { None, Some(<< "q", "=", "1" >>) }

UrlFragments == { None, Some(<< "f" >>) }

\* what the accessors of a url::Url can return together: userinfo and port need
\* a host, cannot_be_a_base means no host and a path without leading slash, a
\* path after a host is empty or begins with a slash, a URL of a special scheme
\* has a host and a path that begins with a slash
UrlInvariant(u) ==
    /\ Special(u.scheme) => u.host.some /\ StartsWith(u.path, "/")
    /\ ~u.host.some => Len(u.username) = 0 /\ ~u.password.some /\ ~u.port.some
    /\ u.cannot_be_a_base => ~u.host.some /\ ~StartsWith(u.path, "/")
    /\ ~u.cannot_be_a_base => (StartsWith(u.path, "/") \/ (u.host.some /\ Len(u.path) = 0))

\* the inputs cover, for the special scheme, every authority in front of the root
\* path and every path, query and fragment behind a domain with and without
\* credentials, and for the other scheme every URL without a host
InputSlice(u) ==
    \/ ~u.host.some
    \/ Special(u.scheme) /\ u.path = << "/" >> /\ ~u.query.some /\ ~u.fragment.some
    \/ /\ Special(u.scheme)
       /\ u.host = Some(Domain(<< "g", ".", "c" >>))
       /\ ~u.port.some
       /\ (Len(u.username) = 0 <=> ~u.password.some)
       /\ (u.password.some => Len(u.password.v) # 0)

ParsedUrls ==
    { u \in [ scheme : UrlSchemes, username : UrlUsernames, password : UrlPasswords,
              host : UrlHosts, port : UrlPorts, path : UrlPaths, query : UrlQueries,
              fragment : UrlFragments, cannot_be_a_base : BOOLEAN ] :
        UrlInvariant(u) /\ InputSlice(u) }

\* values a caller assigns to the public fields
NewSchemes == { None, Some(<< "g" >>) }

NewUsernames == { None, Some(<< >>), Some(<< "n" >>) }

NewPasswords == { None, Some(<< >>), Some(<< "k" >>) }

NewHosts == { None, Some(Domain(<< "e" >>)) }

NewPorts == { None, Some(0) }

NewPaths == { None, Some(<< >>), Some(<< "/" >>), Some(<< "/", "/" >>),
              Some(<< "/", "a", "/", "/", "b" >>), Some(<< "a", "/" >>) }

NewQueries == { None, Some(<< >>) }

NewFragments == { None, Some(<< >>) }

(* ------------------------------------------------------------------ *)
(* State                                                               *)
(* ------------------------------------------------------------------ *)
VARIABLES
    parse,      \* the result of Url::parse for the input string
    view,       \* Option<UnrestrictiveUrl>: the view built from the parsed URL
    edits,      \* field assignments made to the view so far
    rendered,   \* Option<String>: view.to_string() of the current field values
    segments,   \* Option<Option<Vec<&str>>>: view.path_segments() of the current field values
    humanized   \* Option<Result<String, ParseError>>: humanize_url of the input string

vars == << parse, view, edits, rendered, segments, humanized >>

Init ==
    /\ parse \in { Parsed(u) : u \in ParsedUrls } \cup { ParseError }
    /\ view = None
    /\ edits = 0
    /\ rendered = None
    /\ segments = None
    /\ humanized = None

\* UnrestrictiveUrl::from(&url)
Decompose ==
    /\ parse.ok
    /\ ~view.some
    /\ view' = Some(From(parse.url))
    /\ UNCHANGED << parse, edits, rendered, segments, humanized >>

\* a caller's assignment of a different value to a public field; earlier results
\* describe the old values
Assign(new) ==
    /\ view.some
    /\ edits < MaxEdits
    /\ new # view.v
    /\ view' = Some(new)
    /\ edits' = edits + 1
    /\ rendered' = None
    /\ segments' = None
    /\ UNCHANGED << parse, humanized >>

SetScheme == \E x \in NewSchemes : view.some /\ Assign([view.v EXCEPT !.scheme = x])

SetUsername == \E x \in NewUsernames : view.some /\ Assign([view.v EXCEPT !.username = x])

SetPassword == \E x \in NewPasswords : view.some /\ Assign([view.v EXCEPT !.password = x])

SetHost == \E x \in NewHosts : view.some /\ Assign([view.v EXCEPT !.host = x])

SetPort == \E x \in NewPorts : view.some /\ Assign([view.v EXCEPT !.port = x])

SetPath == \E x \in NewPaths : view.some /\ Assign([view.v EXCEPT !.path = x])

SetQuery == \E x \in NewQueries : view.some /\ Assign([view.v EXCEPT !.query = x])

SetFragment == \E x \in NewFragments : view.some /\ Assign([view.v EXCEPT !.fragment = x])

\* view.to_string()
to_string ==
    /\ view.some
    /\ rendered' = Some(Display(view.v))
    /\ UNCHANGED << parse, view, edits, segments, humanized >>

\* view.path_segments()
PathSegments ==
    /\ view.some
    /\ segments' = Some(path_segments(view.v))
    /\ UNCHANGED << parse, view, edits, rendered, humanized >>

\* humanize_url(input), called on the input string before a view of it is built
HumanizeUrl ==
    /\ ~view.some
    /\ humanized' = Some(humanize_url(parse))
    /\ UNCHANGED << parse, view, edits, rendered, segments >>

Next ==
    \/ Decompose
    \/ SetScheme
    \/ SetUsername
    \/ SetPassword
    \/ SetHost
    \/ SetPort
    \/ SetPath
    \/ SetQuery
    \/ SetFragment
    \/ to_string
    \/ PathSegments
    \/ HumanizeUrl

Spec == Init /\ [][Next]_vars

(* ------------------------------------------------------------------ *)
(* Helpers of the properties                                           *)
(* ------------------------------------------------------------------ *)
IsPrefix(p, s) == Len(p) <= Len(s) /\ SubSeq(s, 1, Len(p)) = p

Drop(s, n) == SubSeq(s, n + 1, Len(s))

HasChar(s, c) == \E i \in 1..Len(s) : s[i] = c

\* every piece prefixed with a slash, concatenated
RECURSIVE SlashJoin(_)
SlashJoin(pieces) ==
    IF pieces = << >> THEN << >>
    ELSE << "/" >> \o pieces[1] \o SlashJoin(Drop(pieces, 1))

\* s without one trailing slash
TrimSlash(s) == IF Len(s) > 0 /\ s[Len(s)] = "/" THEN SubSeq(s, 1, Len(s) - 1) ELSE s

\* the text of an optional section: the mark, then the value
Section(mark, opt) == IF opt.some THEN << mark >> \o opt.v ELSE << >>

\* the path section of a rendering r of the fields w: what lies between the
\* scheme and authority sections and the query and fragment sections
PathSection(r, w) ==
    SubSeq(r, Len(FmtScheme(w)) + Len(FmtAuthority(w)) + 1,
              Len(r) - Len(FmtQuery(w)) - Len(FmtFragment(w)))

\* the credential section of the three cases of C4
Credentials(username, password) ==
    IF ~username.some THEN << >>
    ELSE IF ~password.some \/ password.v = << >> THEN username.v \o << "@" >>
    ELSE username.v \o << ":" >> \o password.v \o << "@" >>

\* the authority text of a parsed URL with a host, without the marker:
\* credentials, host, port
UrlAuthority(u) ==
    Credentials(IF u.username = << >> THEN None ELSE Some(u.username), u.password)
    \o HostText(u.host.v)
    \o Section(":", IF u.port.some THEN Some(ToDec(u.port.v)) ELSE None)

\* the view is the decomposition of the parsed URL with only the scheme assigned
OnlySchemeSet(x) ==
    /\ parse.ok
    /\ view.some
    /\ rendered.some
    /\ view.v = [From(parse.url) EXCEPT !.scheme = x]

(* ------------------------------------------------------------------ *)
(* C1                                                                  *)
(* ------------------------------------------------------------------ *)

\* C1: a view of a parsed URL with a host that is not cannot-be-a-base, rendered
\* after clearing the scheme, is the authority without "//", then the original
\* path text with its slashes unchanged, then the query and fragment sections.
C1_ClearedSchemeKeepsPathText ==
    (OnlySchemeSet(None) /\ parse.url.host.some /\ ~parse.url.cannot_be_a_base) =>
        rendered.v = UrlAuthority(parse.url) \o parse.url.path
                     \o Section("?", parse.url.query) \o Section("#", parse.url.fragment)

(* ------------------------------------------------------------------ *)
(* C2                                                                  *)
(* ------------------------------------------------------------------ *)

\* C2: a view of a parsed URL whose scheme is set to a token t renders as t,
\* "://", and the original authority, path, query and fragment unchanged (stated
\* for the parsed URLs with a host, which have an authority to follow "://").
C2_ArbitrarySchemeKeepsRest ==
    \A t \in { x.v : x \in { y \in NewSchemes : y.some } } :
        (OnlySchemeSet(Some(t)) /\ parse.url.host.some) =>
            rendered.v = t \o << ":", "/", "/" >> \o UrlAuthority(parse.url) \o parse.url.path
                         \o Section("?", parse.url.query) \o Section("#", parse.url.fragment)

(* ------------------------------------------------------------------ *)
(* C3                                                                  *)
(* ------------------------------------------------------------------ *)

\* what follows the authority marker, or begins a rendering without scheme
BeginsWithAuthority(r, w) ==
    IF w.username.some
    THEN IsPrefix(w.username.v, r)
    ELSE IsPrefix(HostText(w.host.v), r)

\* C3: without a scheme the rendering has neither the scheme colon nor the "//"
\* marker: with a host it begins with the credentials or the host text; the
\* marker is written before the authority exactly when scheme and host are both
\* present.
C3_NoSchemeNoMarker ==
    rendered.some =>
        LET w == view.v
            r == rendered.v
            body == Len(FmtUserinfo(w)) + Len(HostText(w.host.v))
                    + Len(Section(":", IF w.port.some THEN Some(ToDec(w.port.v)) ELSE None))
            rest == Len(FmtPath(w)) + Len(FmtQuery(w)) + Len(FmtFragment(w))
        IN  /\ (~w.scheme.some /\ w.host.some) =>
                   BeginsWithAuthority(r, w) /\ Len(r) = body + rest
            /\ (~w.scheme.some /\ ~w.host.some) => Len(r) = rest
            /\ (w.scheme.some /\ w.host.some) =>
                   /\ IsPrefix(w.scheme.v \o << ":", "/", "/" >>, r)
                   /\ BeginsWithAuthority(Drop(r, Len(w.scheme.v) + 3), w)
                   /\ Len(r) = Len(w.scheme.v) + 3 + body + rest
            /\ (w.scheme.some /\ ~w.host.some) =>
                   IsPrefix(w.scheme.v \o << ":" >>, r) /\ Len(r) = Len(w.scheme.v) + 1 + rest

C3_Witness ==
    /\ rendered.some
    /\ ~view.v.scheme.some
    /\ view.v.host.some
    /\ view.v.username = Some(<< "u" >>)
    /\ IsPrefix(<< "u", ":", "p", "w", "@", "g", ".", "c" >>, rendered.v)

(* ------------------------------------------------------------------ *)
(* C4                                                                  *)
(* ------------------------------------------------------------------ *)

\* C4: with a host, the credential section is empty without a username, whatever
\* the password (no "@" appears), "<username>@" with a username and an absent or
\* empty password, "<username>:<password>@" with a non-empty password; the host
\* text follows it.
C4_CredentialSection ==
    (rendered.some /\ view.v.host.some) =>
        LET w == view.v
            after == Drop(rendered.v, IF w.scheme.some THEN Len(w.scheme.v) + 3 ELSE 0)
        IN  /\ IsPrefix(Credentials(w.username, w.password) \o HostText(w.host.v), after)
            /\ ~w.username.some => ~HasChar(rendered.v, "@")

C4_Witness ==
    /\ rendered.some
    /\ view.v.host.some
    /\ view.v.username = Some(<< "u" >>)
    /\ view.v.password = Some(<< >>)
    /\ view.v.scheme.some
    /\ IsPrefix(<< "h", "s", ":", "/", "/", "u", "@" >>, rendered.v)

(* ------------------------------------------------------------------ *)
(* C5                                                                  *)
(* ------------------------------------------------------------------ *)

\* C5: the rendering is the rendering of the same fields with the fragment
\* cleared followed by "#<fragment>", and clearing the query removes exactly the
\* "?<query>" section in front of the fragment section.
C5_ClearingFragmentOrQuery ==
    rendered.some =>
        LET w == view.v
            r == rendered.v
            frag == Section("#", w.fragment)
            qry == Section("?", w.query)
            head == SubSeq(r, 1, Len(r) - Len(frag) - Len(qry))
        IN  /\ r = Display([w EXCEPT !.fragment = None]) \o frag
            /\ r = head \o qry \o frag
            /\ Display([w EXCEPT !.query = None]) = head \o frag
            /\ Display([w EXCEPT !.query = None, !.fragment = None]) = head

C5_Witness ==
    /\ rendered.some
    /\ view.v.fragment = Some(<< "f" >>)
    /\ view.v.query = Some(<< "q", "=", "1" >>)
    /\ view.v.path = Some(<< "/" >>)
    /\ Display([view.v EXCEPT !.fragment = None]) \o << "#", "f" >> = rendered.v

(* ------------------------------------------------------------------ *)
(* C6                                                                  *)
(* ------------------------------------------------------------------ *)

\* the result of path_segments for the current path
SegmentsResult ==
    LET r == segments.v
        p == view.v.path
    IN  /\ ~r.some <=> (~p.some \/ ~StartsWith(p.v, "/"))
        /\ r.some =>
               /\ Len(r.v) >= 1
               /\ \A i \in 1..Len(r.v) : ~HasChar(r.v[i], "/")
               /\ SlashJoin(r.v) = p.v
               /\ p.v = << "/" >> => r.v = << << >> >>

\* C6: path_segments returns "no segments" exactly when path is absent or does
\* not begin with "/"; otherwise the pieces between the slashes of the path after
\* its leading slash: at least one, none containing a slash, their slash-prefixed
\* concatenation being the path.  The call changes no field, and calling again
\* gives the same result.
C6_PathSegments ==
    /\ [](segments.some => SegmentsResult)
    /\ [][(segments'.some /\ segments' # segments) => view' = view]_vars
    /\ [][(segments.some /\ segments'.some) => segments' = segments]_vars

C6_Witness ==
    /\ segments.some
    /\ view.v.path = Some(<< "/", "a", "/", "/", "b" >>)
    /\ segments.v = Some(<< << "a" >>, << >>, << "b" >> >>)

(* ------------------------------------------------------------------ *)
(* C7                                                                  *)
(* ------------------------------------------------------------------ *)

\* C7: the view built from a parsed URL has username absent exactly when the
\* parser's username is empty and otherwise that username; password, host, port,
\* query and fragment are the parser's, scheme and path are present and the
\* parser's, cannot_be_a_base is the parser's flag; every parsed URL can be
\* decomposed.
C7_Decompose ==
    /\ (parse.ok /\ ~view.some) => ENABLED Decompose
    /\ (view.some /\ edits = 0) =>
           LET u == parse.url
               w == view.v
           IN  /\ ~w.username.some <=> u.username = << >>
               /\ w.username.some => w.username.v = u.username
               /\ w.password = u.password
               /\ w.host = u.host
               /\ w.port = u.port
               /\ w.query = u.query
               /\ w.fragment = u.fragment
               /\ w.scheme = Some(u.scheme)
               /\ w.path = Some(u.path)
               /\ w.cannot_be_a_base = u.cannot_be_a_base

C7_Witness ==
    /\ view.some
    /\ edits = 0
    /\ parse.url.username = << >>
    /\ parse.url.password = Some(<< >>)
    /\ view.v.username = None
    /\ view.v.password = Some(<< >>)

(* ------------------------------------------------------------------ *)
(* C8                                                                  *)
(* ------------------------------------------------------------------ *)

\* C8: humanize_url of a parsed URL is the rendering of its view without scheme
\* and credentials, one trailing "/" trimmed; for a URL with a host and neither
\* query nor fragment that is host, port and the path without its trailing
\* slash, so a path and the same path with "/" appended give the same string.
C8_HumanizeTrimsSlash ==
    (humanized.some /\ parse.ok) =>
        LET u == parse.url
            w == [From(u) EXCEPT !.scheme = None, !.username = None, !.password = None]
        IN  /\ humanized.v = Ok(TrimSlash(Display(w)))
            /\ (u.host.some /\ ~u.query.some /\ ~u.fragment.some) =>
                   /\ humanized.v = Ok(HostText(u.host.v) \o Section(":", IF u.port.some
                                                                            THEN Some(ToDec(u.port.v))
                                                                            ELSE None)
                                       \o TrimSlash(u.path))
                   /\ humanized.v = humanize_url(Parsed([u EXCEPT !.path = TrimSlash(u.path)]))

(* ------------------------------------------------------------------ *)
(* C9                                                                  *)
(* ------------------------------------------------------------------ *)

\* C9: with cannot_be_a_base the path section is the first segment of
\* path_segments: the text between the leading "/" of the path and its next "/",
\* without a slash; it is empty when the path is absent or does not begin with
\* "/".
C9_CannotBeABasePath ==
    (rendered.some /\ view.v.cannot_be_a_base) =>
        LET w == view.v
            sec == PathSection(rendered.v, w)
            segs == path_segments(w)
        IN  /\ rendered.v = FmtScheme(w) \o FmtAuthority(w) \o sec \o FmtQuery(w) \o FmtFragment(w)
            /\ ~HasChar(sec, "/")
            /\ segs.some => sec = segs.v[1]
            /\ (w.path.some /\ StartsWith(w.path.v, "/")) =>
                   \/ w.path.v = << "/" >> \o sec
                   \/ IsPrefix(<< "/" >> \o sec \o << "/" >>, w.path.v)
            /\ (~w.path.some \/ ~StartsWith(w.path.v, "/")) => sec = << >>

C9_Witness ==
    /\ rendered.some
    /\ view.v.cannot_be_a_base
    /\ view.v.path = Some(<< "/", "a", "/", "/", "b" >>)
    /\ PathSection(rendered.v, view.v) = << "a" >>

(* ------------------------------------------------------------------ *)
(* C10                                                                 *)
(* ------------------------------------------------------------------ *)

\* the condition under which the claim has "/." written
DotCase(w) ==
    ~w.cannot_be_a_base /\ w.path.some /\ w.path.v # << "/" >> /\ StartsWith(w.path.v, "/")

\* C10: without a host, what follows the scheme section never begins with "//";
\* outside the cannot-be-a-base branch "/." is written in front of the segments
\* exactly when the path is present, is not "/" and begins with "/"; in every
\* other case the path section begins with at most one "/".
C10_NoAuthorityLookalike ==
    (rendered.some /\ ~view.v.host.some) =>
        LET w == view.v
            after == Drop(rendered.v, Len(FmtScheme(w)))
            sec == PathSection(rendered.v, w)
        IN  /\ ~IsPrefix(<< "/", "/" >>, after)
            /\ IsPrefix(sec, after)
            /\ DotCase(w) =>
                   sec = << "/", "." >> \o SlashJoin(Split(w.path.v, "/"))
            /\ ~DotCase(w) =>
                   /\ ~IsPrefix(<< "/", "/" >>, sec)
                   /\ (~w.cannot_be_a_base /\ w.path.some /\ w.path.v # << "/" >>) =>
                          sec = SlashJoin(Split(w.path.v, "/"))

C10_Witness ==
    /\ rendered.some
    /\ ~view.v.host.some
    /\ ~view.v.cannot_be_a_base
    /\ view.v.path = Some(<< "/", "/", "S" >>)
    /\ rendered.v = << "m", ":", "/", ".", "/", "/", "/", "S" >>

====
